---- MODULE Spec2Model ----
(***************************************************************************)
(* Pricing engines and the sampling portfolio optimizer of the POA         *)
(* repository, as state machines.                                          *)
(*                                                                         *)
(* Numbers.  Money and rates are exact rationals kept as integers over a   *)
(* stated denominator; a float that the code can make non-finite carries   *)
(* an IEEE-754 kind: "fin", "pinf", "ninf" or "nan".  Rounding of finite   *)
(* values is not modelled.                                                 *)
(*   - returns and the risk-free rate are in hundredths (0.01 = 1);        *)
(*   - a draw of np.random.random is k / DrawMax, k in 0 .. DrawMax-1;     *)
(*   - a Sharpe ratio of kind "fin" is num / sqrt(rad), rad > 0.           *)
(***************************************************************************)
EXTENDS Integers, Sequences, FiniteSets, TLC

\* ---------------------------------------------------------------- bounds
MaxAssets == 2
MaxPortfolios == 2
DrawMax == 3
ReturnMax == 2
CovMax == 1
MaxBatch == 2
MaxMaturity == 2
MaxSteps == 3
PipelinePortfolios == 1

\* ------------------------------------------------------ program constants
\* risk_free_rate=0.01, in hundredths
RiskFreeRate == 1
\* return 0.03, in percent
DefaultDiscountRate == 3
\* notional = 1_000_000
BatchNotional == 1000000
\* row.get("rate", 0.02), in percent
DefaultRate == 2
\* row.get("tenor", 5)
DefaultTenor == 5

VARIABLES
    returns,          \* PortfolioOptimization.returns
    cov_matrix,       \* PortfolioOptimization.cov_matrix (square, as rows)
    cov_ndim,         \* its number of axes: 2 for a matrix, 0 for a scalar
    num_portfolios,   \* argument of optimize_portfolio
    results,          \* columns of `results`: [ret, vol, sharpe] per sample
    weights_record,   \* weights_record
    optPc,            \* position of the optimizer run
    optErr,           \* exception that ended the run, or "none"
    optimal,          \* value returned by get_optimal_weights
    swap_data,        \* SwapPricing.swap_data: a frame [cols, rows]
    discount_rate,    \* SwapPricing.discount_rate, in percent, or None
    provider_calls,   \* requests.get calls made to the discount-rate provider
    provider,         \* what the provider answered, "pending" before
    swapPc,           \* position of the SwapPricing instance
    swapErr,          \* exception that escaped a SwapPricing call, or "none"
    swap_prices,      \* local dict of calculate_prices, in insertion order
    rowIdx,           \* row the loop of calculate_prices is at
    bond,             \* fields of the BondPricing instance
    option,           \* fields of the OptionPricing instance
    futures,          \* fields of the FuturesPricing instance
    lastReturn,       \* what the last completed pricing call returned or raised
    tree,             \* locals of a running binomial_tree_option call
    caller            \* locals of main() or of the app.py button handler

optVars == <<returns, cov_matrix, cov_ndim, num_portfolios, results, weights_record,
             optPc, optErr, optimal>>

swapVars == <<swap_data, discount_rate, provider_calls, provider, swapPc,
              swapErr, swap_prices, rowIdx>>

instrVars == <<bond, option, futures>>

localVars == <<tree, caller>>

vars == <<optVars, swapVars, instrVars, lastReturn, localVars>>

\* ------------------------------------------------------------ arithmetic
RECURSIVE Sum(_)
Sum(s) == IF s = <<>> THEN 0 ELSE Head(s) + Sum(Tail(s))

\* np.dot of two vectors of equal length
Dot(a, b) == Sum([i \in 1..Len(a) |-> a[i] * b[i]])

\* np.dot(w.T, np.dot(cov, w)) on the un-normalised draw
Quad(w, cov) == Dot(w, [i \in 1..Len(cov) |-> Dot(cov[i], w)])

NaN == [k |-> "nan"]
PInf == [k |-> "pinf"]
NInf == [k |-> "ninf"]

IsNaN(x) == x.k = "nan"
IsFinite(x) == x.k = "fin"

\* ------------------------------------------------ mean_variance_optimization
\* weights = np.random.random(n); weights /= np.sum(weights)
\* weight i is num[i] / den; with den = 0 and n > 0 every weight is 0.0/0.0
Normalize(draw) == [num |-> draw, den |-> Sum(draw)]

WeightsAreNaN(w) == Len(w.num) > 0 /\ w.den = 0

\* denominator shared by the return and the volatility of a sample
Den(w) == IF Len(w.num) = 0 THEN 1 ELSE w.den

\* portfolio_return = np.dot(weights, self.returns)
PortfolioReturn(w, rets) ==
    IF WeightsAreNaN(w) THEN NaN
    ELSE [k |-> "fin", num |-> Dot(w.num, rets), den |-> Den(w)]

\* portfolio_volatility = np.sqrt(w' C w): sqrt(rad) / den
PortfolioVolatility(w, cov) ==
    IF WeightsAreNaN(w) THEN NaN
    ELSE IF Quad(w.num, cov) < 0 THEN NaN
    ELSE [k |-> "fin", rad |-> Quad(w.num, cov), den |-> Den(w)]

IsZeroVol(v) == v.k = "fin" /\ v.rad = 0

\* sharpe_ratio = (portfolio_return - risk_free_rate) / portfolio_volatility
\* float64 division: x/0.0 is +-inf, 0.0/0.0 is nan, and no exception
SharpeRatio(ret, vol, rf) ==
    IF IsNaN(ret) \/ IsNaN(vol) THEN NaN
    ELSE LET excess == ret.num - rf * ret.den
         IN  IF vol.rad = 0
             THEN IF excess > 0 THEN PInf
                  ELSE IF excess < 0 THEN NInf ELSE NaN
             ELSE [k |-> "fin", num |-> excess, rad |-> vol.rad]

MeanVarianceOptimization(draw, rets, cov, rf) ==
    LET w == Normalize(draw)
        ret == PortfolioReturn(w, rets)
        vol == PortfolioVolatility(w, cov)
    IN  [weights |-> w, ret |-> ret, vol |-> vol,
         sharpe |-> SharpeRatio(ret, vol, rf)]

\* np.dot(self.cov_matrix, weights) needs as many columns as weights
ShapesAligned(rets, cov) == Len(cov) = Len(rets)

\* np.dot with a 0-d cov_matrix is the product c * weights, which is what
\* the n x n matrix c * I gives; a 2-d cov_matrix is used as it is
DotOperand(cov, ndim, n) ==
    IF ndim = 0
    THEN [i \in 1..n |-> [j \in 1..n |-> IF i = j THEN cov[1][1] ELSE 0]]
    ELSE cov

\* ------------------------------------------------------- float comparison
Sign(x) == IF x > 0 THEN 1 ELSE IF x < 0 THEN -1 ELSE 0

\* a.num/sqrt(a.rad) <= b.num/sqrt(b.rad), both finite
FinLE(a, b) ==
    IF Sign(a.num) # Sign(b.num) THEN Sign(a.num) < Sign(b.num)
    ELSE IF a.num >= 0
         THEN a.num * a.num * b.rad <= b.num * b.num * a.rad
         ELSE a.num * a.num * b.rad >= b.num * b.num * a.rad

\* IEEE-754 x <= y: false as soon as one side is nan
LE(x, y) ==
    IF IsNaN(x) \/ IsNaN(y) THEN FALSE
    ELSE IF x.k = "ninf" \/ y.k = "pinf" THEN TRUE
    ELSE IF x.k = "pinf" \/ y.k = "ninf" THEN FALSE
    ELSE FinLE(x, y)

GE(x, y) == LE(y, x)

\* ------------------------------------------------------- np.argmax
\* the scan of numpy's argmax: a later element replaces the running maximum
\* only if it is not <= it; the first nan met ends the scan
ReplacesOnTie(x, best) == ~LE(x, best) \/ GE(x, best)

\* if (!(x <= max)): x becomes the running maximum
Replaces(x, best) == ~LE(x, best)

RECURSIVE ArgMaxScan(_, _, _)
ArgMaxScan(s, i, best) ==
    IF i > Len(s) \/ IsNaN(s[best]) THEN best
    ELSE IF Replaces(s[i], s[best]) THEN ArgMaxScan(s, i + 1, i)
    ELSE ArgMaxScan(s, i + 1, best)

\* taking the first row for the best one
ArgMaxFirstRow(s) == 1

ArgMax(s) == ArgMaxScan(s, 2, 1)

SharpeRow(res) == [i \in 1..Len(res) |-> res[i].sharpe]

\* =============================================================== SwapPricing
\* A cell of the swap frame: a number (rates in percent, tenors in years),
\* a string, or a list (a JSON array, which is not hashable).
Num(n) == [t |-> "num", n |-> n, s |-> ""]
Str(x) == [t |-> "str", n |-> 0, s |-> x]
ListCell == [t |-> "list", n |-> 0, s |-> ""]

Float0 == [k |-> "fin", num |-> 0, den |-> 1]

\* DataFrame.empty: no rows or no columns
FrameEmpty(df) == Len(df.rows) = 0 \/ df.cols = {}

\* what the provider can answer to requests.get(url)
FailureKinds == {"request_error", "http_error", "bad_json", "no_data_key",
                 "empty_data", "missing_field", "non_numeric"}

Responses == { [kind |-> f, amt |-> 0] : f \in FailureKinds } \cup
             { [kind |-> "ok", amt |-> a] : a \in {5} }

\* the body of the try block of fetch_discount_rate
FetchBody(resp) ==
    CASE resp.kind = "request_error" -> [exc |-> "ConnectionError", rate |-> 0]
      [] resp.kind = "http_error"    -> [exc |-> "HTTPError", rate |-> 0]
      [] resp.kind = "bad_json"      -> [exc |-> "JSONDecodeError", rate |-> 0]
      [] resp.kind = "no_data_key"   -> [exc |-> "none",
                                         rate |-> DefaultDiscountRate]
      [] resp.kind = "empty_data"    -> [exc |-> "none",
                                         rate |-> DefaultDiscountRate]
      [] resp.kind = "missing_field" -> [exc |-> "KeyError", rate |-> 0]
      [] resp.kind = "non_numeric"   -> [exc |-> "ValueError", rate |-> 0]
      [] OTHER                       -> [exc |-> "none", rate |-> resp.amt]

CaughtRequestOnly(exc) == exc \in {"ConnectionError", "HTTPError", "JSONDecodeError"}

\* except Exception as e
Caught(exc) == TRUE

\* fetch_discount_rate once the provider has answered
FetchDiscountRate(resp) ==
    LET b == FetchBody(resp)
    IN  IF b.exc = "none" THEN b
        ELSE IF Caught(b.exc) THEN [exc |-> "none", rate |-> DefaultDiscountRate]
        ELSE b

\* calculate_fixed_leg: notional * fixed_rate * maturity, rate in percent
FixedLeg(notional, rate, maturity) == (notional * rate * maturity) \div 100

\* calculate_floating_leg: sum(notional * rate for rate in floating_rates)
FloatingLeg(notional, rates) ==
    Sum([i \in 1..Len(rates) |-> (notional * rates[i]) \div 100])

\* net_present_value: both legs over (1 + discount_rate) ** maturity; the
\* value is num / (1 + dr/100) ^ exp
NPV(notional, rate, rates, maturity, dr) ==
    [num |-> FixedLeg(notional, rate, maturity) - FloatingLeg(notional, rates),
     dr |-> dr, exp |-> maturity]

\* row.get(col, default)
RowGet(df, row, col, default) == IF col \in df.cols THEN row[col] ELSE default

\* the body of the try block of calculate_prices for one row
PriceRow(df, row, dr) ==
    LET fixed_rate == RowGet(df, row, "rate", Num(DefaultRate))
        maturity == RowGet(df, row, "tenor", Num(DefaultTenor))
        key == RowGet(df, row, "currency_pair", Str("USD"))
    IN  IF fixed_rate.t # "num" \/ maturity.t # "num"
        THEN [exc |-> "TypeError", key |-> "", pv |-> [num |-> 0, dr |-> 0, exp |-> 0]]
        ELSE IF key.t = "list"
        THEN [exc |-> "TypeError", key |-> "", pv |-> [num |-> 0, dr |-> 0, exp |-> 0]]
        ELSE [exc |-> "none", key |-> key.s,
              pv |-> NPV(BatchNotional, fixed_rate.n, <<fixed_rate.n>>,
                         maturity.n, dr)]

\* swap_prices[key] = pv on a dict kept in insertion order
DictSet(d, key, pv) ==
    IF \E i \in 1..Len(d) : d[i].key = key
    THEN [i \in 1..Len(d) |-> IF d[i].key = key THEN [key |-> key, pv |-> pv]
                              ELSE d[i]]
    ELSE Append(d, [key |-> key, pv |-> pv])

RowStepAborting(d, i, df, dr) ==
    LET r == PriceRow(df, df.rows[i], dr)
    IN  [dict |-> IF r.exc = "none" THEN DictSet(d, r.key, r.pv) ELSE d,
         next |-> IF r.exc = "none" THEN i + 1 ELSE Len(df.rows) + 1]

\* the loop body: a row that raises leaves the dict alone and the loop goes on
RowStep(d, i, df, dr) ==
    LET r == PriceRow(df, df.rows[i], dr)
    IN  [dict |-> IF r.exc = "none" THEN DictSet(d, r.key, r.pv) ELSE d,
         next |-> i + 1]

PricesResultNoSentinel(d) == [kind |-> "dict", val |-> d]

\* return swap_prices if swap_prices else 0.0
PricesResult(d) ==
    IF Len(d) > 0 THEN [kind |-> "dict", val |-> d]
    ELSE [kind |-> "float", val |-> Float0]

SwapColumns == {"rate", "tenor", "currency_pair"}

Cells(col) ==
    CASE col = "rate"  -> {Num(2), Num(3), Str("n/a")}
      [] col = "tenor" -> {Num(2), Str("5Y")}
      [] OTHER         -> {Str("EURUSD"), Str("USDJPY"), ListCell}

AllCells == UNION { Cells(c) : c \in SwapColumns }

RowsOver(cols) == { r \in [cols -> AllCells] : \A c \in cols : r[c] \in Cells(c) }

Frames ==
    UNION { { [cols |-> cols, rows |-> rs] :
              rs \in UNION { [1..n -> RowsOver(cols)] : n \in 0..MaxBatch } } :
            cols \in SUBSET SwapColumns }

NoFrame == [cols |-> {}, rows |-> <<>>]
NoBond == [face_value |-> 0, coupon_rate |-> 0, maturity |-> 0, market_rate |-> 0]
NoOption == [spot_price |-> 0, strike_price |-> 0, time_to_maturity |-> 0,
             risk_free_rate |-> 0, volatility |-> 0]
NoFutures == [spot_price |-> 0, strike_price |-> 0, time_to_expiration |-> 0,
              risk_free_rate |-> 0, volatility |-> 0]
NoRet == [op |-> "none", kind |-> "none", val |-> Float0]

\* no binomial_tree_option call running, none made yet
NoTree == [pc |-> "idle", steps |-> 0, option_type |-> "call", i |-> 0,
           option_values |-> <<>>]

\* neither main() nor the button handler running
NoCaller == [pc |-> "idle", who |-> "none", selected_assets |-> {},
             asset_labels |-> <<>>, asset_returns |-> <<>>,
             optimized_weights |-> <<>>, err |-> "none"]

LocalsIdle == tree = NoTree /\ caller = NoCaller

BondTerms ==
    [face_value : {100}, coupon_rate : {1}, maturity : {1, 2},
     market_rate : {1}]

OptionTerms ==
    [spot_price : {100}, strike_price : {100}, time_to_maturity : {1},
     risk_free_rate : {3}, volatility : {0, 20}]

FuturesTerms ==
    [spot_price : {0, 100}, strike_price : {100}, time_to_expiration : {1},
     risk_free_rate : {3}, volatility : {20}]

\* what fetch_swap_rates can return: pd.DataFrame() after a failure, else a
\* frame of one record that has at least two of the columns
FetchedFrames ==
    { f \in Frames :
        /\ Len(f.rows) <= 1
        /\ Len(f.rows) = 0 => f.cols = {}
        /\ Len(f.rows) = 1 =>
              /\ Cardinality(f.cols) >= 2
              /\ "rate" \in f.cols => f.rows[1]["rate"] # Num(3) }

\* options of any volatility, maturity and rate, in percent and years
WideOptionTerms ==
    [spot_price : {100}, strike_price : {100}, time_to_maturity : {-1, 0, 1},
     risk_free_rate : {-50, 3, 50}, volatility : {-20, 0, 20}]

\* futures of any time to expiration, in years
WideFuturesTerms ==
    [spot_price : {0, 100}, strike_price : {100},
     time_to_expiration : {-1, 0, 1}, risk_free_rate : {0, 3},
     volatility : {10, 20}]

\* bonds of any maturity, also none and negative, and any rate down to -100%
WideBondTerms ==
    [face_value : {0, 100}, coupon_rate : {0, 1}, maturity : -1..MaxMaturity,
     market_rate : {-10, 0, 1}]

\* frames of at most one record, every column present
SmallFrames == { f \in Frames : Len(f.rows) <= 1 /\ f.cols = SwapColumns }

\* =============================================================== BondPricing
\* coupon_rate and market_rate are in tenths (0.1 = 1); a result is the
\* rational num / den
RECURSIVE Pow(_, _)
Pow(b, e) == IF e <= 0 THEN 1 ELSE b * Pow(b, e - 1)

\* 1 + market_rate, in tenths
Base(b) == 10 + b.market_rate

\* coupon_payment(t): face_value * coupon_rate, in tenths
CouponPayment(b) == b.face_value * b.coupon_rate

\* numerator of x / (1 + market_rate) ** e over the denominator Base ** E
Over(b, x, e, E) == x * Pow(10, e) * Pow(Base(b), E - e)

Raised(exc) == [exc |-> exc, num |-> 0, den |-> 1]
Value(num, den) == [exc |-> "none", num |-> num, den |-> den]

\* the sum the loop of price() builds plus the face value term, in tenths
\* over Base ** maturity
PriceNum(b) ==
    Sum([t \in 1..b.maturity |-> Over(b, CouponPayment(b), t, b.maturity)])
    + Over(b, 10 * b.face_value, b.maturity, b.maturity)

\* price()
BondPrice(b) ==
    IF Base(b) = 0 /\ b.maturity # 0 THEN Raised("ZeroDivisionError")
    ELSE IF b.maturity >= 0
    THEN Value(PriceNum(b), 10 * Pow(Base(b), b.maturity))
    ELSE Value(b.face_value * Pow(Base(b), -b.maturity), Pow(10, -b.maturity))

DurationNum(b) ==
    Sum([t \in 1..b.maturity |-> Over(b, t * CouponPayment(b), t, b.maturity)])
    + Over(b, 10 * b.maturity * b.face_value, b.maturity, b.maturity)

\* duration(): the weighted sum over price()
BondDuration(b) ==
    IF BondPrice(b).exc # "none" THEN BondPrice(b)
    ELSE IF BondPrice(b).num = 0 THEN Raised("ZeroDivisionError")
    ELSE IF b.maturity >= 0 THEN Value(DurationNum(b), PriceNum(b))
    ELSE Value(b.maturity, 1)

ConvexityNum(b) ==
    Sum([t \in 1..b.maturity |->
            Over(b, t * (t + 1) * CouponPayment(b), t + 2, b.maturity + 2)])
    + Over(b, 10 * b.maturity * (b.maturity + 1) * b.face_value,
           b.maturity + 2, b.maturity + 2)

\* convexity(): the weighted sum over price()
BondConvexity(b) ==
    IF BondPrice(b).exc # "none" THEN BondPrice(b)
    ELSE IF BondPrice(b).num = 0 THEN Raised("ZeroDivisionError")
    ELSE IF b.maturity >= 0
    THEN Value(ConvexityNum(b), PriceNum(b) * Pow(Base(b), 2))
    ELSE Value(b.maturity * (b.maturity + 1) * Pow(10, 2), Pow(Base(b), 2))

\* ============================================================= OptionPricing
\* the exceptions of the d1 expression, in evaluation order: the quotient
\* spot/strike, math.log, math.sqrt, then the division by sigma * sqrt(T)
BlackScholesGuard(o) ==
    IF o.strike_price = 0 THEN "ZeroDivisionError"
    ELSE IF o.spot_price * o.strike_price <= 0 THEN "ValueError"
    ELSE IF o.time_to_maturity < 0 THEN "ValueError"
    ELSE IF o.volatility = 0 \/ o.time_to_maturity = 0 THEN "ZeroDivisionError"
    ELSE "none"

\* the exceptions of dt, u, d and p of binomial_tree_option
BinomialGuard(o, steps) ==
    IF steps = 0 THEN "ZeroDivisionError"
    ELSE IF o.time_to_maturity * steps < 0 THEN "ValueError"
    ELSE IF o.volatility = 0 \/ o.time_to_maturity = 0 THEN "ZeroDivisionError"
    ELSE "none"

\* p of binomial_tree_option lies strictly between 0 and 1, for dt > 0 and
\* volatility # 0: p = (exp(r dt) - d) / (u - d) with d = 1/u is in (0, 1)
\* exactly when exp(r dt) lies strictly between d and u, that is when
\* |r| dt < |volatility| sqrt(dt), that is r^2 T < volatility^2 steps
PInUnitInterval(o, steps) ==
    o.risk_free_rate * o.risk_free_rate * o.time_to_maturity
        < o.volatility * o.volatility * steps

\* the payoff of terminal node j (j up moves), line 44
Terminal(j) == <<j>>

\* exp(-r dt) * (p * up + (1 - p) * down), line 48
Node(down, up) == <<down, up>>

\* lines 43-44: one payoff per terminal asset price
TerminalValues(steps) == [j \in 1..(steps + 1) |-> Terminal(j - 1)]

BackwardLevelShort(option_values, i) ==
    [j \in 1..i |-> Node(option_values[j], option_values[j + 1])]

\* line 48: the list comprehension over range(i + 1)
BackwardLevel(option_values, i) ==
    [j \in 1..(i + 1) |-> Node(option_values[j], option_values[j + 1])]

\* ============================================================ FuturesPricing
\* margin_requirements: spot_price * 0.1
Margin(f) == Value(f.spot_price, 10)

\* rolling_adjustment
RollingAdjustment(current_price, previous_price) ==
    Value(current_price - previous_price, 1)

\* ------------------------------------------------------------ input sets
Vectors(n, S) == [1..n -> S]

\* diagonal covariance matrices of dimension m
DiagMatrices(m) ==
    { [i \in 1..m |-> [j \in 1..m |-> IF i = j THEN d[i] ELSE 0]] :
      d \in Vectors(m, 0..CovMax) }

Draws(n) == Vectors(n, 0..(DrawMax - 1))

\* ------------------------------------------------------------------ Init
OptIdle ==
    /\ returns = <<>>
    /\ cov_matrix = <<>>
    /\ cov_ndim = 2
    /\ num_portfolios = 0
    /\ results = <<>>
    /\ weights_record = <<>>
    /\ optPc = "idle"
    /\ optErr = "none"
    /\ optimal = [idx |-> 0]

SwapNew ==
    /\ discount_rate = 0
    /\ provider_calls = 0
    /\ provider = [kind |-> "pending", amt |-> 0]
    /\ swapPc = "new"
    /\ swapErr = "none"
    /\ swap_prices = <<>>
    /\ rowIdx = 0

InitOpt ==
    /\ \E n \in 0..MaxAssets : returns \in Vectors(n, 0..ReturnMax)
    /\ \E m \in 0..MaxAssets : cov_matrix \in DiagMatrices(m)
    /\ cov_ndim = 2
    /\ num_portfolios \in 0..MaxPortfolios
    /\ results = <<>>
    /\ weights_record = <<>>
    /\ optPc = "sampling"
    /\ optErr = "none"
    /\ optimal = [idx |-> 0]

InstrIdle ==
    /\ bond = NoBond
    /\ option = NoOption
    /\ futures = NoFutures

Init ==
    /\ InitOpt
    /\ swap_data = NoFrame /\ SwapNew
    /\ InstrIdle
    /\ lastReturn = NoRet
    /\ LocalsIdle

\* one instance of each pricing engine
InstrInit ==
    /\ OptIdle
    /\ swap_data \in SmallFrames /\ SwapNew
    /\ bond \in BondTerms
    /\ option \in OptionTerms
    /\ futures \in FuturesTerms
    /\ lastReturn = NoRet
    /\ LocalsIdle

\* the frame handed to SwapPricing(swap_data) is any frame
SwapInit ==
    /\ OptIdle
    /\ swap_data \in Frames /\ SwapNew
    /\ InstrIdle
    /\ lastReturn = NoRet
    /\ LocalsIdle

\* --------------------------------------------------------------- actions
\* one iteration of the loop of optimize_portfolio
Sample ==
    /\ optPc = "sampling"
    /\ Len(results) < num_portfolios
    /\ \E draw \in Draws(Len(returns)) :
         IF ShapesAligned(returns,
                          DotOperand(cov_matrix, cov_ndim, Len(returns)))
         THEN LET s == MeanVarianceOptimization(draw, returns,
                           DotOperand(cov_matrix, cov_ndim, Len(returns)),
                           RiskFreeRate)
              IN  /\ results' = Append(results,
                        [ret |-> s.ret, vol |-> s.vol, sharpe |-> s.sharpe])
                  /\ weights_record' = Append(weights_record, s.weights)
                  /\ UNCHANGED <<optPc, optErr>>
         ELSE /\ optPc' = "raised"
              /\ optErr' = "ValueError"
              /\ UNCHANGED <<results, weights_record>>
    /\ UNCHANGED <<returns, cov_matrix, cov_ndim, num_portfolios, optimal>>
    /\ UNCHANGED <<swapVars, instrVars, localVars, lastReturn>>

\* return results, weights_record
OptimizeReturn ==
    /\ optPc = "sampling"
    /\ Len(results) = num_portfolios
    /\ optPc' = "returned"
    /\ UNCHANGED <<returns, cov_matrix, cov_ndim, num_portfolios, results,
                   weights_record, optErr, optimal>>
    /\ UNCHANGED <<swapVars, instrVars, localVars, lastReturn>>

\* get_optimal_weights(results, weights_record)
GetOptimalWeights ==
    /\ optPc = "returned"
    /\ IF Len(results) = 0
       THEN /\ optPc' = "raised"
            /\ optErr' = "ValueError"
            /\ UNCHANGED optimal
       ELSE LET idx == ArgMax(SharpeRow(results))
            IN  /\ optimal' = [idx |-> idx,
                               weights |-> weights_record[idx],
                               ret |-> results[idx].ret,
                               vol |-> results[idx].vol]
                /\ optPc' = "selected"
                /\ UNCHANGED optErr
    /\ UNCHANGED <<returns, cov_matrix, cov_ndim, num_portfolios, results,
                   weights_record>>
    /\ UNCHANGED <<swapVars, instrVars, localVars, lastReturn>>

Next == Sample \/ OptimizeReturn \/ GetOptimalWeights

Spec == Init /\ [][Next]_vars

\* ------------------------------------------------------ SwapPricing actions
\* SwapPricing(swap_data) up to the call requests.get(url)
SwapConstruct ==
    /\ swapPc = "new"
    /\ provider_calls' = provider_calls + 1
    /\ swapPc' = "fetching"
    /\ UNCHANGED <<swap_data, discount_rate, provider, swapErr, swap_prices,
                   rowIdx>>
    /\ UNCHANGED <<optVars, instrVars, localVars, lastReturn>>

\* requests.get returns or raises; the rest of fetch_discount_rate and of
\* __init__ runs
ProviderRespond ==
    /\ swapPc = "fetching"
    /\ \E resp \in Responses :
         LET r == FetchDiscountRate(resp)
         IN  /\ provider' = resp
             /\ IF r.exc = "none"
                THEN /\ discount_rate' = r.rate
                     /\ swapPc' = "ready"
                     /\ UNCHANGED swapErr
                ELSE /\ swapPc' = "failed"
                     /\ swapErr' = r.exc
                     /\ UNCHANGED discount_rate
    /\ UNCHANGED <<swap_data, provider_calls, swap_prices, rowIdx>>
    /\ UNCHANGED <<optVars, instrVars, localVars, lastReturn>>

\* calculate_prices refreshing the rate before the loop
CalculatePricesBeginRefetching ==
    /\ swapPc = "ready"
    /\ provider_calls' = provider_calls + 1
    /\ swapPc' = "fetching"
    /\ UNCHANGED <<swap_data, discount_rate, provider, swapErr, swap_prices,
                   rowIdx>>
    /\ UNCHANGED <<optVars, instrVars, localVars, lastReturn>>

\* calculate_prices up to the loop
CalculatePricesBegin ==
    /\ swapPc = "ready"
    /\ IF FrameEmpty(swap_data)
       THEN /\ lastReturn' = [op |-> "calculate_prices", kind |-> "float",
                       val |-> Float0]
            /\ UNCHANGED <<swapPc, swap_prices, rowIdx>>
       ELSE /\ swapPc' = "pricing"
            /\ swap_prices' = <<>>
            /\ rowIdx' = 1
            /\ UNCHANGED lastReturn
    /\ UNCHANGED <<swap_data, discount_rate, provider_calls, provider, swapErr>>
    /\ UNCHANGED <<optVars, instrVars, localVars>>

\* one iteration of the loop of calculate_prices
CalculatePricesRow ==
    /\ swapPc = "pricing"
    /\ rowIdx <= Len(swap_data.rows)
    /\ LET st == RowStep(swap_prices, rowIdx, swap_data, discount_rate)
       IN  /\ swap_prices' = st.dict
           /\ rowIdx' = st.next
    /\ UNCHANGED <<swap_data, discount_rate, provider_calls, provider, swapPc,
                   swapErr>>
    /\ UNCHANGED <<optVars, instrVars, localVars, lastReturn>>

\* the return statement of calculate_prices
CalculatePricesReturn ==
    /\ swapPc = "pricing"
    /\ rowIdx > Len(swap_data.rows)
    /\ lastReturn' = [op |-> "calculate_prices",
               kind |-> PricesResult(swap_prices).kind,
               val |-> PricesResult(swap_prices).val]
    /\ swapPc' = "ready"
    /\ UNCHANGED <<swap_data, discount_rate, provider_calls, provider, swapErr,
                   swap_prices, rowIdx>>
    /\ UNCHANGED <<optVars, instrVars, localVars>>

\* direct calls of calculate_fixed_leg, calculate_floating_leg and
\* net_present_value
SwapLegCall ==
    /\ swapPc = "ready"
    /\ \E rate \in {2}, maturity \in {2}, rates \in {<<2, 3>>} :
         \/ lastReturn' = [op |-> "calculate_fixed_leg", kind |-> "int",
                    val |-> FixedLeg(100, rate, maturity)]
         \/ lastReturn' = [op |-> "calculate_floating_leg", kind |-> "int",
                    val |-> FloatingLeg(100, rates)]
         \/ lastReturn' = [op |-> "net_present_value", kind |-> "npv",
                    val |-> NPV(100, rate, rates, maturity, discount_rate)]
    /\ UNCHANGED swapVars
    /\ UNCHANGED <<optVars, instrVars, localVars>>

SwapNext ==
    \/ SwapConstruct
    \/ ProviderRespond
    \/ CalculatePricesBegin
    \/ CalculatePricesRow
    \/ CalculatePricesReturn
    \/ SwapLegCall

SwapSpec == SwapInit /\ [][SwapNext]_vars

\* steps the interpreter takes once it can; the provider's answer is not one
SwapProgramStep ==
    \/ SwapConstruct
    \/ CalculatePricesBegin
    \/ CalculatePricesRow
    \/ CalculatePricesReturn
    \/ SwapLegCall

SwapLive == SwapSpec /\ WF_vars(SwapProgramStep)


\* --------------------------------------- bond, option and futures actions
\* calls run to completion one at a time: none starts inside the constructor
\* or the loop of a SwapPricing call
NoCallInProgress ==
    swapPc \in {"new", "ready", "failed"} /\ tree.pc = "idle"

Outcome(op, r) ==
    IF r.exc # "none" THEN [op |-> op, kind |-> "raise", val |-> r.exc]
    ELSE [op |-> op, kind |-> "rational", val |-> [num |-> r.num, den |-> r.den]]

\* an opaque float: the function applied to the instance's fields
Opaque(op, guard, args) ==
    IF guard # "none" THEN [op |-> op, kind |-> "raise", val |-> guard]
    ELSE [op |-> op, kind |-> "float", val |-> args]

BondPriceCall ==
    /\ NoCallInProgress
    /\ lastReturn' = Outcome("price", BondPrice(bond))
    /\ UNCHANGED <<optVars, swapVars, instrVars, localVars>>

BondCouponPaymentCall ==
    /\ NoCallInProgress
    /\ lastReturn' = Outcome("coupon_payment", Value(CouponPayment(bond), 10))
    /\ UNCHANGED <<optVars, swapVars, instrVars, localVars>>

BondDurationCall ==
    /\ NoCallInProgress
    /\ lastReturn' = Outcome("duration", BondDuration(bond))
    /\ UNCHANGED <<optVars, swapVars, instrVars, localVars>>

BondConvexityCall ==
    /\ NoCallInProgress
    /\ lastReturn' = Outcome("convexity", BondConvexity(bond))
    /\ UNCHANGED <<optVars, swapVars, instrVars, localVars>>

BlackScholesCall ==
    /\ NoCallInProgress
    /\ lastReturn' = Opaque("black_scholes_call", BlackScholesGuard(option),
                            <<option>>)
    /\ UNCHANGED <<optVars, swapVars, instrVars, localVars>>

BlackScholesPut ==
    /\ NoCallInProgress
    /\ lastReturn' = Opaque("black_scholes_put", BlackScholesGuard(option),
                            <<option>>)
    /\ UNCHANGED <<optVars, swapVars, instrVars, localVars>>

BinomialTreeOption ==
    /\ NoCallInProgress
    /\ \E steps \in 0..2, option_type \in {"call", "put"} :
         lastReturn' = Opaque("binomial_tree_option",
                              BinomialGuard(option, steps),
                              <<option, steps, option_type>>)
    /\ UNCHANGED <<optVars, swapVars, instrVars, localVars>>

\* binomial_tree_option line by line.  Lines 37-44: dt, u, d, p and the
\* terminal payoffs; the arguments stay in `tree` after the call
BinomialStart ==
    /\ NoCallInProgress
    /\ \E steps \in 0..MaxSteps, option_type \in {"call", "put"} :
         IF BinomialGuard(option, steps) # "none"
         THEN /\ lastReturn' = Opaque("binomial_tree_option",
                                      BinomialGuard(option, steps), <<>>)
              /\ tree' = [pc |-> "idle", steps |-> steps,
                          option_type |-> option_type, i |-> 0,
                          option_values |-> <<>>]
         ELSE /\ lastReturn' = NoRet
              /\ tree' = [pc |-> "inducting", steps |-> steps,
                          option_type |-> option_type, i |-> steps - 1,
                          option_values |-> TerminalValues(steps)]
    /\ UNCHANGED <<optVars, swapVars, instrVars, caller>>

\* lines 47-48: one pass of the backward induction loop
BinomialLevel ==
    /\ tree.pc = "inducting"
    /\ tree.i >= 0
    /\ tree' = [tree EXCEPT !.option_values = BackwardLevel(@, tree.i),
                            !.i = @ - 1]
    /\ UNCHANGED <<optVars, swapVars, instrVars, caller, lastReturn>>

\* line 50: return option_values[0]
BinomialReturn ==
    /\ tree.pc = "inducting"
    /\ tree.i < 0
    /\ lastReturn' =
         IF tree.option_values = <<>>
         THEN [op |-> "binomial_tree_option", kind |-> "raise",
               val |-> "IndexError"]
         ELSE [op |-> "binomial_tree_option", kind |-> "float",
               val |-> <<option, tree.steps, tree.option_type,
                         tree.option_values[1]>>]
    /\ tree' = [tree EXCEPT !.pc = "idle", !.i = 0, !.option_values = <<>>]
    /\ UNCHANGED <<optVars, swapVars, instrVars, caller>>

CalculateFuturesPrice ==
    /\ NoCallInProgress
    /\ lastReturn' = Opaque("calculate_futures_price", "none", <<futures>>)
    /\ UNCHANGED <<optVars, swapVars, instrVars, localVars>>

MarginRequirements ==
    /\ NoCallInProgress
    /\ lastReturn' = Outcome("margin_requirements", Margin(futures))
    /\ UNCHANGED <<optVars, swapVars, instrVars, localVars>>

RollingAdjustmentCall ==
    /\ NoCallInProgress
    /\ \E current_price \in {101}, previous_price \in {100, 102} :
         lastReturn' = Outcome("rolling_adjustment",
                           RollingAdjustment(current_price, previous_price))
    /\ UNCHANGED <<optVars, swapVars, instrVars, localVars>>

\* (price - spot) / spot on numpy floats: 0.0/0 is nan, nothing is raised
PriceSensitivity ==
    /\ NoCallInProgress
    /\ lastReturn' = IF futures.spot_price = 0
                     THEN [op |-> "price_sensitivity", kind |-> "nan",
                           val |-> <<futures>>]
                     ELSE Opaque("price_sensitivity", "none", <<futures>>)
    /\ UNCHANGED <<optVars, swapVars, instrVars, localVars>>

ImpliedVolatility ==
    /\ NoCallInProgress
    /\ lastReturn' = Outcome("implied_volatility", Value(futures.volatility, 1))
    /\ UNCHANGED <<optVars, swapVars, instrVars, localVars>>

InstrNext ==
    \/ SwapNext
    \/ BondPriceCall
    \/ BondCouponPaymentCall
    \/ BondDurationCall
    \/ BondConvexityCall
    \/ BlackScholesCall
    \/ BlackScholesPut
    \/ BinomialTreeOption
    \/ CalculateFuturesPrice
    \/ MarginRequirements
    \/ RollingAdjustmentCall
    \/ PriceSensitivity
    \/ ImpliedVolatility

InstrSpec == InstrInit /\ [][InstrNext]_vars

\* a BondPricing instance alone
BondInit ==
    /\ OptIdle
    /\ swap_data = NoFrame /\ SwapNew
    /\ bond \in WideBondTerms
    /\ option = NoOption
    /\ futures = NoFutures
    /\ lastReturn = NoRet
    /\ LocalsIdle

BondNext ==
    \/ BondPriceCall
    \/ BondCouponPaymentCall
    \/ BondDurationCall
    \/ BondConvexityCall

BondSpec == BondInit /\ [][BondNext]_vars

\* an OptionPricing instance alone
OptionInit ==
    /\ OptIdle
    /\ swap_data = NoFrame /\ SwapNew
    /\ bond = NoBond
    /\ option \in WideOptionTerms
    /\ futures = NoFutures
    /\ lastReturn = NoRet
    /\ LocalsIdle

OptionNext ==
    \/ BlackScholesCall
    \/ BlackScholesPut
    \/ BinomialStart
    \/ BinomialLevel
    \/ BinomialReturn

OptionSpec == OptionInit /\ [][OptionNext]_vars

\* a FuturesPricing instance alone
FuturesInit ==
    /\ OptIdle
    /\ swap_data = NoFrame /\ SwapNew
    /\ bond = NoBond
    /\ option = NoOption
    /\ futures \in WideFuturesTerms
    /\ lastReturn = NoRet
    /\ LocalsIdle

FuturesNext ==
    \/ CalculateFuturesPrice
    \/ MarginRequirements
    \/ RollingAdjustmentCall
    \/ PriceSensitivity
    \/ ImpliedVolatility

FuturesSpec == FuturesInit /\ [][FuturesNext]_vars

\* ------------------------------------------- main() and the app.py handler
AssetTypes == <<"Bonds", "Options", "Futures", "Swaps">>

\* main() prices all four asset classes; the handler those selected
Takes(c, asset) == c.who = "main" \/ asset \in c.selected_assets

\* the frame a fetcher returned, or None where the handler did not fetch
IsNone(c, asset) == ~Takes(c, asset)

\* app.py lines 84-92, main.py line 104
AssetLabels(c) == SelectSeq(AssetTypes, LAMBDA a : Takes(c, a))

\* the prices of the fixed instruments of lines 60-62, as ranks: what is
\* checked of them is which are zero and how many there are
BondLevel == 3
OptionLevel == 1
FuturesLevel == 2
SwapLevel == 4

\* swap_prices after lines 84-85: the first value of the dict, else 0.0
SwapPriceOf(r) ==
    IF r.kind = "dict"
    THEN IF r.val[1].pv.num = 0 THEN 0 ELSE SwapLevel
    ELSE 0

\* bond_prices, option price, futures_prices, swap_prices: the handler puts
\* 0 for an asset class that is not selected
PriceList(c, r) ==
    << IF Takes(c, "Bonds") THEN BondLevel ELSE 0,
       IF Takes(c, "Options") THEN OptionLevel ELSE 0,
       IF Takes(c, "Futures") THEN FuturesLevel ELSE 0,
       IF Takes(c, "Swaps") THEN SwapPriceOf(r) ELSE 0 >>

\* main.py line 89 keeps every price; app.py line 107 drops the zeros
AssetReturns(c, r) ==
    IF c.who = "main" THEN PriceList(c, r)
    ELSE SelectSeq(PriceList(c, r), LAMBDA val : val # 0)

\* np.cov of a 1-d array is the 0-d sample variance, here times n (n - 1)
ScaledVariance(x) == Len(x) * Dot(x, x) - Sum(x) * Sum(x)

\* the exception process_derivative_data ends with, or "none"
ProcessDerivativeData(c, swaps) ==
    IF IsNone(c, "Options") \/ IsNone(c, "Futures") \/ IsNone(c, "Swaps")
    THEN "AttributeError"
    ELSE IF FrameEmpty(swaps) THEN "none"
    ELSE IF "rate" \notin swaps.cols THEN "KeyError"
    ELSE IF \E i \in 1..Len(swaps.rows) : swaps.rows[i]["rate"].t # "num"
    THEN "ValueError"
    ELSE IF "tenor" \notin swaps.cols THEN "KeyError"
    ELSE IF \E i \in 1..Len(swaps.rows) : swaps.rows[i]["tenor"].t # "num"
    THEN "ValueError"
    ELSE "none"

\* optimized_results[0], flattened and cut to len(asset_labels)
FirstRow(res, labels) ==
    LET row == [i \in 1..Len(res) |-> res[i].ret]
    IN  IF Len(row) # Len(labels)
        THEN SubSeq(row, 1, IF Len(labels) < Len(row) THEN Len(labels)
                            ELSE Len(row))
        ELSE row

\* a run of main(), or one click of the button with any selection
CallerInit ==
    /\ OptIdle
    /\ swap_data = NoFrame /\ SwapNew
    /\ InstrIdle
    /\ lastReturn = NoRet
    /\ tree = NoTree
    /\ \E who \in {"main", "app"}, sel \in SUBSET {"Bonds", "Options",
                                                   "Futures", "Swaps"} :
         /\ who = "main" => sel = {"Bonds", "Options", "Futures", "Swaps"}
         /\ caller = [NoCaller EXCEPT !.pc = "start", !.who = who,
                                      !.selected_assets = sel]

\* main.py lines 31-45, app.py lines 63-75: fetch_swap_rates returns a
\* frame, empty after a provider failure
FetchData ==
    /\ caller.pc = "start"
    /\ swap_data' \in IF Takes(caller, "Swaps") THEN FetchedFrames
                      ELSE {NoFrame}
    /\ caller' = [caller EXCEPT !.pc = "fetched"]
    /\ UNCHANGED <<discount_rate, provider_calls, provider, swapPc, swapErr,
                   swap_prices, rowIdx>>
    /\ UNCHANGED <<optVars, instrVars, lastReturn, tree>>

\* main.py lines 52-56, app.py lines 79-81: nothing catches what
\* process_derivative_data raises
ProcessData ==
    /\ caller.pc = "fetched"
    /\ LET e == ProcessDerivativeData(caller, swap_data)
       IN  caller' = IF e = "none" THEN [caller EXCEPT !.pc = "processed"]
                     ELSE [caller EXCEPT !.pc = "aborted", !.err = e]
    /\ UNCHANGED <<optVars, swapVars, instrVars, lastReturn, tree>>

\* main.py lines 63 and 81, app.py line 100:
\* SwapPricing(swap_data).calculate_prices()
CallerSwapStep ==
    /\ caller.pc = "processed"
    /\ Takes(caller, "Swaps")
    /\ lastReturn.op # "calculate_prices"
    /\ \/ SwapConstruct
       \/ ProviderRespond
       \/ CalculatePricesBegin
       \/ CalculatePricesRow
       \/ CalculatePricesReturn

\* main.py lines 84-99, app.py lines 103-119: the return vector, np.cov of
\* it and PortfolioOptimization(asset_returns, cov_matrix); the handler
\* skips the optimizer for fewer than two returns
HandToOptimizer ==
    /\ caller.pc = "processed"
    /\ Takes(caller, "Swaps") => lastReturn.op = "calculate_prices"
    /\ LET rets == AssetReturns(caller, lastReturn)
       IN  IF caller.who = "main" \/ Len(rets) > 1
           THEN /\ caller' = [caller EXCEPT !.pc = "optimizing",
                                            !.asset_returns = rets,
                                            !.asset_labels = AssetLabels(caller)]
                /\ returns' = rets
                /\ cov_matrix' = << <<ScaledVariance(rets)>> >>
                /\ cov_ndim' = 0
                /\ num_portfolios' = PipelinePortfolios
                /\ results' = <<>>
                /\ weights_record' = <<>>
                /\ optPc' = "sampling"
                /\ UNCHANGED <<optErr, optimal>>
           ELSE /\ caller' = [caller EXCEPT !.pc = "skipped",
                                            !.asset_returns = rets,
                                            !.asset_labels = AssetLabels(caller)]
                /\ UNCHANGED optVars
    /\ UNCHANGED <<swapVars, instrVars, lastReturn, tree>>

\* main.py lines 106-116, app.py lines 123-133: the weights handed to
\* plot_metrics and to the weights table
PresentWeights ==
    /\ caller.pc = "optimizing"
    /\ optPc = "returned"
    /\ caller' = [caller EXCEPT !.pc = "presented",
                     !.optimized_weights = FirstRow(results, caller.asset_labels)]
    /\ UNCHANGED <<optVars, swapVars, instrVars, lastReturn, tree>>

CallerNext ==
    \/ FetchData
    \/ ProcessData
    \/ CallerSwapStep
    \/ HandToOptimizer
    \/ Sample
    \/ OptimizeReturn
    \/ PresentWeights

CallerSpec == CallerInit /\ [][CallerNext]_vars

\* ================================================================ claims
NumAssets == Len(returns)

\* a recorded weight vector lies on the simplex: length n, every component
\* a non-negative number, components summing to 1
OnSimplex(w) ==
    /\ Len(w.num) = NumAssets
    /\ w.den # 0
    /\ \A i \in 1..Len(w.num) : w.num[i] >= 0 /\ w.den > 0
    /\ Sum(w.num) = w.den

\* C1: every sample recorded for n >= 1 assets has a weight vector of
\* length n whose components are non-negative and sum to 1.
C1_WeightsOnSimplex ==
    NumAssets >= 1 =>
        \A i \in 1..Len(weights_record) : OnSimplex(weights_record[i])

\* C2: the sample selected by get_optimal_weights has a Sharpe ratio >= the
\* Sharpe ratio of every other sample recorded in the run.
C2_SelectedIsMax ==
    optPc = "selected" =>
        \A j \in 1..Len(results) :
            j # optimal.idx =>
                GE(results[optimal.idx].sharpe, results[j].sharpe)

\* indices of the samples whose Sharpe ratio is >= every recorded one
MaxSharpeSet ==
    { i \in 1..Len(results) :
        \A j \in 1..Len(results) : GE(results[i].sharpe, results[j].sharpe) }

SetMin(S) == CHOOSE x \in S : \A y \in S : x <= y

\* C3: when recorded samples attain the maximum Sharpe ratio, the one
\* selected is the first generated of them (lowest index).
C3_FirstOfTies ==
    (optPc = "selected" /\ MaxSharpeSet # {}) =>
        optimal.idx = SetMin(MaxSharpeSet)

C3_Witness ==
    /\ optPc = "selected"
    /\ Cardinality(MaxSharpeSet) >= 2
    /\ optimal.idx = 1
    /\ IsFinite(results[1].sharpe)
    /\ weights_record[1] # weights_record[2]

\* C4: a sample of volatility 0 records a Sharpe ratio of exactly 0; no
\* recorded Sharpe ratio is nan or infinite; no division by zero is raised.
C4_ZeroVolSharpeZero ==
    /\ optErr # "ZeroDivisionError"
    /\ \A i \in 1..Len(results) :
         /\ IsFinite(results[i].sharpe)
         /\ IsZeroVol(results[i].vol) => results[i].sharpe.num = 0

\* C5: with an empty return vector, or one whose length differs from the
\* covariance matrix's dimension, the optimizer records no sample and
\* fails with InvalidParameter.
C5_InvalidParameter ==
    (NumAssets = 0 \/ NumAssets # Len(cov_matrix)) =>
        /\ Len(results) = 0
        /\ optPc \notin {"returned", "selected"}
        /\ optPc = "raised" => optErr = "InvalidParameter"

\* C2 and C3 hold of every run in which no Sharpe ratio is nan
NoNaNSharpe == \A i \in 1..Len(results) : ~IsNaN(results[i].sharpe)
SelectedIsMaxWithoutNaN == NoNaNSharpe => C2_SelectedIsMax

\* the orders in which n samples can be recorded
Orders(n) ==
    { f \in [1..n -> 1..n] : \A i, j \in 1..n : i # j => f[i] # f[j] }

\* the sample get_optimal_weights selects when the recorded samples are
\* laid out in order f: position i holds sample f[i]
SelectedUnder(f) ==
    f[ArgMax(SharpeRow([i \in 1..Len(results) |-> results[f[i]]]))]

\* two weight vectors are equal number by number; an all-nan vector equals
\* only an all-nan vector
SameWeights(a, b) ==
    IF a.den = 0 \/ b.den = 0 THEN a.den = b.den
    ELSE \A i \in 1..Len(a.num) : a.num[i] * b.den = b.num[i] * a.den

\* C19 as stated: for every order of recording the same samples, the
\* selection yields the same sample (its weights, and with them its return
\* and volatility, which lines 9-13 compute from the weights).
C19_OrderIndependent ==
    optPc = "selected" =>
        \A f \in Orders(Len(results)) :
            SameWeights(weights_record[SelectedUnder(f)], optimal.weights)

\* C19, amended: for every order of recording the same samples whose
\* maximum Sharpe ratio is attained, the selected sample attains the
\* maximum, and it is the same sample when only one sample attains it.
C19_MaxUnderEveryOrder ==
    (optPc = "selected" /\ MaxSharpeSet # {}) =>
        \A f \in Orders(Len(results)) :
            /\ SelectedUnder(f) \in MaxSharpeSet
            /\ Cardinality(MaxSharpeSet) = 1 => SelectedUnder(f) = optimal.idx

C19_Witness ==
    /\ optPc = "selected"
    /\ Len(results) >= 2
    /\ MaxSharpeSet = {2}
    /\ optimal.idx = 2
    /\ ~SameWeights(weights_record[1], weights_record[2])

\* ------------------------------------------------------------ swap claims
PricesReturned == lastReturn.op = "calculate_prices"

\* a record is well-formed when its rate and tenor are numbers and its
\* currency pair can key a dict
WellFormed(df, row) ==
    /\ "rate" \in df.cols => row["rate"].t = "num"
    /\ "tenor" \in df.cols => row["tenor"].t = "num"
    /\ "currency_pair" \in df.cols => row["currency_pair"].t = "str"

WellFormedRows(df) ==
    { i \in 1..Len(df.rows) : WellFormed(df, df.rows[i]) }

PairOf(df, row) ==
    IF "currency_pair" \in df.cols THEN row["currency_pair"].s ELSE "USD"

\* C6: calculate_prices returns exactly 0.0, raising nothing, when the batch
\* is empty and when every record of a non-empty batch fails to price; in
\* every other case it returns a non-empty mapping.
C6_SentinelOrMapping ==
    PricesReturned =>
        /\ swapErr = "none"
        /\ IF FrameEmpty(swap_data) \/ WellFormedRows(swap_data) = {}
           THEN lastReturn.kind = "float" /\ lastReturn.val = Float0
           ELSE lastReturn.kind = "dict" /\ Len(lastReturn.val) >= 1

C6_Witness ==
    /\ PricesReturned
    /\ ~FrameEmpty(swap_data)
    /\ WellFormedRows(swap_data) = {}
    /\ lastReturn.kind = "float"

C6_WitnessMapping ==
    /\ PricesReturned
    /\ lastReturn.kind = "dict"
    /\ Len(lastReturn.val) = 2

DictKeys(d) == { d[i].key : i \in 1..Len(d) }

SetMax(S) == CHOOSE x \in S : \A y \in S : x >= y

\* the value a well-formed record prices to
RecordNPV(df, row, dr) ==
    LET p == IF "rate" \in df.cols THEN row["rate"].n ELSE DefaultRate
        m == IF "tenor" \in df.cols THEN row["tenor"].n ELSE DefaultTenor
    IN  NPV(BatchNotional, p, <<p>>, m, dr)

\* d holds exactly one entry per currency pair of the well-formed records
\* among rows 1 .. upto-1, valued by the last such record of that pair
ReflectsWellFormed(d, upto) ==
    LET wf == { j \in WellFormedRows(swap_data) : j < upto }
    IN  /\ DictKeys(d) = { PairOf(swap_data, swap_data.rows[i]) : i \in wf }
        /\ Cardinality(DictKeys(d)) = Len(d)
        /\ \A e \in 1..Len(d) :
             LET last == SetMax({ i \in wf :
                            PairOf(swap_data, swap_data.rows[i]) = d[e].key })
             IN  d[e].pv = RecordNPV(swap_data, swap_data.rows[last],
                                     discount_rate)

\* C7: a record whose pricing raises is skipped without aborting the batch:
\* every other record is still priced, and the returned mapping has an entry
\* for the currency pair of each well-formed record and no other entry.
C7_MalformedSkipped ==
    /\ swapPc = "pricing" => ReflectsWellFormed(swap_prices, rowIdx)
    /\ (PricesReturned /\ lastReturn.kind = "dict") =>
         ReflectsWellFormed(lastReturn.val, Len(swap_data.rows) + 1)

C7_Witness ==
    /\ PricesReturned
    /\ lastReturn.kind = "dict"
    /\ Len(swap_data.rows) = 2
    /\ WellFormedRows(swap_data) = {2}

IsFailure(resp) == resp.kind \in FailureKinds

\* C8: for every provider outcome that is a failure, construction completes
\* without raising and the discount rate is exactly 0.03.
C8_ProviderFailureDefaults ==
    IsFailure(provider) =>
        /\ swapPc \in {"ready", "pricing"}
        /\ swapErr = "none"
        /\ discount_rate = DefaultDiscountRate

C8_Witness ==
    /\ provider.kind = "missing_field"
    /\ swapPc = "ready"
    /\ discount_rate = DefaultDiscountRate

\* C9: the discount-rate fetch of the constructor is bounded by a timeout:
\* even if the provider never answers, construction eventually completes
\* (with the rate 0.03).
C9_FetchBounded == (swapPc = "fetching") ~> (swapPc = "ready")

\* ----------------------------------------------------------- frame claim
SwapConstructed == swapPc \in {"ready", "pricing"}

\* a step leaves every constructor-set field as it is and calls the provider
\* only from the constructor
FieldsKept ==
    /\ bond' = bond
    /\ option' = option
    /\ futures' = futures
    /\ swap_data' = swap_data
    /\ SwapConstructed => /\ discount_rate' = discount_rate
                          /\ provider_calls' = provider_calls

\* C10: instrument parameters and the swap discount rate are set once at
\* construction and never changed by pricing operations, and the
\* discount-rate provider is called exactly once per SwapPricing instance.
C10_SetOnceAtConstruction ==
    /\ [][FieldsKept]_vars
    /\ [](SwapConstructed => provider_calls = 1)

C10_Witness ==
    /\ SwapConstructed
    /\ provider.kind = "ok"
    /\ discount_rate = 5
    /\ provider_calls = 1
    /\ lastReturn.op = "calculate_prices"
    /\ lastReturn.kind = "dict"
    /\ bond.maturity = 2

\* ------------------------------------------------------------ bond claims
\* C11: price() fails with InvalidParameter, returning no value, whenever
\* the maturity is less than 1.
C11_PriceRejectsShortMaturity ==
    (lastReturn.op = "price" /\ bond.maturity < 1) =>
        (lastReturn.kind = "raise" /\ lastReturn.val = "InvalidParameter")

\* ---------------------------------------------------------- option claims
\* C12: black_scholes_call and black_scholes_put fail with InvalidParameter
\* whenever the volatility or the time to maturity is <= 0: no value is
\* returned and no division by zero escapes.
C12_BlackScholesRejects ==
    (/\ lastReturn.op \in {"black_scholes_call", "black_scholes_put"}
     /\ (option.volatility <= 0 \/ option.time_to_maturity <= 0)) =>
        (lastReturn.kind = "raise" /\ lastReturn.val = "InvalidParameter")

\* the last binomial_tree_option call got as far as computing p
ComputedP ==
    /\ lastReturn.op = "binomial_tree_option"
    /\ BinomialGuard(option, tree.steps) = "none"

\* C13: binomial_tree_option fails with InvalidParameter, returning no price,
\* whenever its risk-neutral probability p is not strictly between 0 and 1.
C13_BinomialRejectsBadP ==
    (ComputedP /\ ~PInUnitInterval(option, tree.steps)) =>
        (lastReturn.kind = "raise" /\ lastReturn.val = "InvalidParameter")

\* the value of node j of a level of a tree of `steps` steps, top down
RECURSIVE Lattice(_, _, _)
Lattice(steps, level, j) ==
    IF level >= steps THEN Terminal(j)
    ELSE Node(Lattice(steps, level + 1, j), Lattice(steps, level + 1, j + 1))

\* the level option_values holds while the loop is about to compute level i
LevelHeld == tree.i + 1

\* C20: for steps >= 1 binomial_tree_option starts from steps + 1 terminal
\* payoffs, each backward level i leaves i + 1 values, each computed from the
\* two adjacent values of the level before, the loop ends with one value and
\* that value is returned; for steps = 0 no price is returned.
C20_TreeShape ==
    /\ tree.pc = "inducting" =>
         /\ tree.steps >= 1
         /\ Len(tree.option_values) = LevelHeld + 1
         /\ \A j \in 1..Len(tree.option_values) :
               tree.option_values[j] = Lattice(tree.steps, LevelHeld, j - 1)
    /\ ComputedP =>
         /\ tree.steps >= 1
         /\ lastReturn.kind = "float"
         /\ lastReturn.val[4] = Lattice(tree.steps, 0, 0)
    /\ (lastReturn.op = "binomial_tree_option" /\ tree.steps = 0) =>
         lastReturn.kind = "raise"

C20_Witness ==
    /\ lastReturn.op = "binomial_tree_option"
    /\ lastReturn.kind = "float"
    /\ tree.steps = 2
    /\ lastReturn.val[4] = <<<<<<0>>, <<1>>>>, <<<<1>>, <<2>>>>>>

\* --------------------------------------------------------- futures claims
\* C14: with a negative time to expiration the futures engine fails with
\* InvalidParameter: no price, margin or sensitivity is returned.
C14_FuturesRejectsNegativeTime ==
    (/\ lastReturn.op \in {"calculate_futures_price", "margin_requirements",
                           "price_sensitivity"}
     /\ futures.time_to_expiration < 0) =>
        (lastReturn.kind = "raise" /\ lastReturn.val = "InvalidParameter")

\* ---------------------------------------------------------- caller claims
HandedToOptimizer == caller.pc \in {"optimizing", "presented"}

\* C15: whenever a return vector and a covariance matrix are handed to the
\* optimizer, the vector's length equals the dimension of the n x n
\* covariance matrix and the number of active asset classes (of labels).
C15_ShapesAgree ==
    HandedToOptimizer =>
        /\ cov_ndim = 2
        /\ Len(cov_matrix) = Len(returns)
        /\ \A i \in 1..Len(cov_matrix) : Len(cov_matrix[i]) = Len(returns)
        /\ Len(returns) = Len(caller.asset_labels)

\* every derivative class was fetched: none is handed on as None
AllFetched ==
    Takes(caller, "Options") /\ Takes(caller, "Futures") /\ Takes(caller, "Swaps")

\* C16: no provider failure (no data, incomplete columns) and no malformed
\* swap record aborts the run: whatever frame the swap fetch returned, no
\* unhandled error ends the run between the fetch and the optimizer.
C16_NeverAborts == AllFetched => caller.pc # "aborted"

\* the number ret (a return, in hundredths) equals weight i of w
IsWeight(ret, w, i) ==
    /\ ret.k = "fin"
    /\ w.den # 0
    /\ 100 * ret.den * w.num[i] = ret.num * w.den

\* C18: the weights the callers hand to plot_metrics and to the weights
\* table are the weights of the sample of maximum Sharpe ratio.
C18_PresentsArgMaxWeights ==
    caller.pc = "presented" =>
        LET w == weights_record[ArgMax(SharpeRow(results))]
        IN  /\ Len(caller.optimized_weights) = Len(w.num)
            /\ \A i \in 1..Len(w.num) :
                  IsWeight(caller.optimized_weights[i], w, i)

====
